---- MODULE Spec2Model ----
(***************************************************************************)
(* NoctaVox: the sample tap (voxio/src/engine/tap.rs) and the spectrum     *)
(* engine (noctavox/src/ui_state/spectrum.rs).                             *)
(*                                                                         *)
(* The tap is an rtrb single-producer/single-consumer ring: a slot array   *)
(* and two cursors, head (owned by the consumer) and tail (owned by the    *)
(* producer), both running over 0 .. 2*capacity-1.  push and get_latest    *)
(* are split at their accesses to the shared cursors, so the two contexts  *)
(* interleave exactly where the two threads can.                           *)
(*                                                                         *)
(* Samples are f32 values the tap never inspects; they are numbered        *)
(* 1, 2, 3, ... in the order they are handed to push, so that a sample's   *)
(* identity and its position in the pushed stream are the same number.     *)
(* A call's locals are cleared when it returns.                            *)
(***************************************************************************)
EXTENDS Integers, Sequences, FiniteSets, TLC

\* ------------------------------------------------------------- bounds
Capacity == 3        \* capacity passed to new_tap
MaxBatch == 4        \* longest batch handed to push
MaxAmount == 4       \* largest amount asked of get_latest
MaxSamples == 5      \* samples handed to push over a whole run
MaxChannels == 2     \* largest channel count given to update
MaxUpdates == 3      \* update calls over a whole run
MaxWarmup == 1       \* update calls before a signal is sustained
MaxRenders == 2      \* frames the spectrum widget renders over a whole run
Scale == 1000        \* the fixed-point unit: the f32 value 1.0
\* crate::TAP_BUFFER_CAPACITY is set outside these sources; a small window
\* stands for it
TAP_BUFFER_CAPACITY == 8

VARIABLES
  buf, head, tail,                      \* the ring: slots and the two cursors
  wpc, samples, w_available, to_write,  \* TapWriter::push in progress
  rpc, output_len, r_available, to_read,\* TapReader::get_latest in progress
  output,                               \* the Vec the last get_latest returned
  pushed, delivered, wDropped, rSkipped,\* history: the two streams and the drops
  log,                                  \* history: the last two calls
  bins, decay_factor, bands, band_peaks, sample_rate,   \* SpectrumState
  call, rebuilt, updates,               \* history: the last update call
  held,                                 \* the spectrum of a sustained signal
  due,                                  \* a frame of the render loop is due
  tick, renders                         \* history: the last render of the widget

tapVars == <<buf, head, tail, wpc, samples, w_available, to_write, rpc,
             output_len, r_available, to_read, output, pushed, delivered, wDropped,
             rSkipped, log>>

spectrumVars == <<bins, decay_factor, bands, band_peaks, sample_rate, call,
                  rebuilt, updates, held, due, tick, renders>>

vars == <<tapVars, spectrumVars>>

\* ------------------------------------------------------------ helpers
Min(a, b) == IF a <= b THEN a ELSE b
Max(a, b) == IF a >= b THEN a ELSE b
Range(s) == {s[i] : i \in 1..Len(s)}
Last(s) == s[Len(s)]
\* samples[skip..]
DropFirst(s, k) == SubSeq(s, k + 1, Len(s))

\* rtrb: number of occupied slots between the cursors
Distance(h, t) == IF h <= t THEN t - h ELSE 2 * Capacity - h + t
\* rtrb: the slot a cursor position denotes
Collapse(pos) == IF pos < Capacity THEN pos ELSE pos - Capacity
\* rtrb: a cursor advanced by n
Increment(pos, n) == (pos + n) % (2 * Capacity)

\* Producer::slots(): free slots
ProducerSlots_OffByOne == Capacity - Distance(head, tail) + 1
ProducerSlots == Capacity - Distance(head, tail)
\* Consumer::slots(): occupied slots
ConsumerSlots == Distance(head, tail)

\* the queued samples, oldest first
Queue == [i \in 1..ConsumerSlots |-> buf[Collapse(Increment(head, i - 1))]]

\* ReadChunk::as_slices(): the n slots from h, up to the end of the storage and
\* then from its start
FirstSlice(h, n) ==
  [i \in 1..Min(n, Capacity - Collapse(h)) |-> buf[Collapse(h) + i - 1]]
SecondSlice(h, n) ==
  [i \in 1..(n - Min(n, Capacity - Collapse(h))) |-> buf[i - 1]]
\* output.extend_from_slice(first); output.extend_from_slice(second)
ChunkSlices_FirstOnly(h, n) == FirstSlice(h, n)
ChunkSlices_SecondFirst(h, n) == SecondSlice(h, n) \o FirstSlice(h, n)
ChunkSlices(h, n) == FirstSlice(h, n) \o SecondSlice(h, n)

\* Producer::write_chunk_uninit(n): Ok iff n slots are free
WriteChunkOk(n) == n <= ProducerSlots
\* Consumer::read_chunk(n): Ok iff n slots are occupied
ReadChunkOk(n) == n <= ConsumerSlots

\* chunk.fill_from_iter(items): the slots after the items are written at t
FillFromIter(items, t) ==
  [s \in 0..(Capacity - 1) |->
     IF \E i \in 1..Len(items) : Collapse(Increment(t, i - 1)) = s
     THEN items[CHOOSE i \in 1..Len(items) : Collapse(Increment(t, i - 1)) = s]
     ELSE buf[s]]

\* -------------------------------------------------------- call history
CallRecord(op, batch, amount) ==
  [op |-> op, batch |-> batch, amount |-> amount, before |-> Queue,
   overlapped |-> (IF op = "push" THEN rpc /= "idle" ELSE wpc /= "idle"),
   done |-> FALSE, result |-> <<>>]

\* a new call enters the log; a call of the other side still running overlaps it
LogCall(rec) ==
  LET old == IF log = <<>> THEN <<>>
             ELSE <<IF Last(log).done THEN Last(log)
                    ELSE [Last(log) EXCEPT !.overlapped = TRUE]>>
  IN old \o <<rec>>

\* the still-running call of side op returns result
LogReturn(l, op, result) ==
  [i \in 1..Len(l) |->
     IF l[i].op = op /\ ~l[i].done
     THEN [l[i] EXCEPT !.done = TRUE, !.result = result]
     ELSE l[i]]

\* ------------------------------------------------------------ TapInit
TapInit ==
  /\ buf = [s \in 0..(Capacity - 1) |-> 0]
  /\ head = 0
  /\ tail = 0
  /\ wpc = "idle"
  /\ samples = <<>>
  /\ w_available = 0
  /\ to_write = 0
  /\ rpc = "idle"
  /\ output_len = 0
  /\ r_available = 0
  /\ to_read = 0
  /\ output = <<>>
  /\ pushed = 0
  /\ delivered = <<>>
  /\ wDropped = {}
  /\ rSkipped = {}
  /\ log = <<>>

\* ------------------------------------------------------ TapWriter::push
\* push is called with a batch; it reads the free slot count, returns at once
\* on a full channel, and otherwise fixes to_write.
PushToWrite_All(len, free) == len
PushToWrite(len, free) == Min(len, free)

PushBegin(len) ==
  /\ LET batch == [i \in 1..len |-> pushed + i]
         free == ProducerSlots
         rec == CallRecord("push", batch, 0)
     IN /\ pushed' = pushed + len
        /\ w_available' = free
        /\ IF free = 0
           THEN /\ wpc' = "idle"
                /\ samples' = <<>>
                /\ to_write' = 0
                /\ wDropped' = wDropped \cup Range(batch)
                /\ log' = LogReturn(LogCall(rec), "push", <<>>)
           ELSE /\ wpc' = "write"
                /\ samples' = batch
                /\ to_write' = PushToWrite(len, free)
                /\ wDropped' = wDropped
                /\ log' = LogCall(rec)
  /\ UNCHANGED <<buf, head, tail, rpc, output_len, r_available, to_read,
                 output, delivered, rSkipped>>
  /\ UNCHANGED spectrumVars

PushCall_Waits(len) ==
  /\ wpc = "idle"
  /\ pushed + len <= MaxSamples
  /\ ProducerSlots > 0
  /\ PushBegin(len)
PushCall(len) ==
  /\ wpc = "idle"
  /\ pushed + len <= MaxSamples
  /\ PushBegin(len)

\* the samples push copies into the chunk: samples[skip..]
PushItems_Oldest(batch, n) == SubSeq(batch, 1, n)
PushItems(batch, n) == DropFirst(batch, Len(batch) - n)

PushWrite ==
  /\ wpc = "write"
  /\ LET items == PushItems(samples, to_write)
     IN IF WriteChunkOk(to_write)
        THEN /\ buf' = FillFromIter(items, tail)
             /\ tail' = Increment(tail, Len(items))
             /\ wDropped' = wDropped \cup (Range(samples) \ Range(items))
             /\ log' = LogReturn(log, "push", items)
        ELSE /\ UNCHANGED <<buf, tail>>
             /\ wDropped' = wDropped \cup Range(samples)
             /\ log' = LogReturn(log, "push", <<>>)
  /\ wpc' = "idle"
  /\ samples' = <<>>
  /\ w_available' = 0
  /\ to_write' = 0
  /\ UNCHANGED <<head, rpc, output_len, r_available, to_read,
                 output, pushed, delivered, rSkipped>>
  /\ UNCHANGED spectrumVars

\* ------------------------------------------------- TapReader::get_latest
\* amount.min(self.capacity)
OutputLen(amount) == Min(amount, Capacity)
\* available - output_len, the backlog older than the requested amount
SkipCount_Swapped(avail, len) == len
SkipCount_OneLess(avail, len) == avail - len - 1
SkipCount(avail, len) == avail - len
\* self.consumer.slots().min(output_len)
ToRead_All(slots, len) == slots
ToRead(slots, len) == Min(slots, len)

\* get_latest is called: it clamps the amount, reads the occupied slot count
\* and returns an empty Vec when nothing is queued.
GetLatestCall(amount) ==
  /\ rpc = "idle"
  /\ LET slots == ConsumerSlots
         rec == CallRecord("get", <<>>, amount)
     IN /\ IF slots = 0
           THEN /\ rpc' = "idle"
                /\ output_len' = 0
                /\ r_available' = 0
                /\ output' = <<>>
                /\ log' = LogReturn(LogCall(rec), "get", <<>>)
           ELSE /\ rpc' = IF slots > OutputLen(amount) THEN "skip" ELSE "count"
                /\ output_len' = OutputLen(amount)
                /\ r_available' = slots
                /\ output' = output
                /\ log' = LogCall(rec)
  /\ to_read' = 0
  /\ UNCHANGED <<buf, head, tail, wpc, samples, w_available, to_write, pushed,
                 delivered, wDropped, rSkipped>>
  /\ UNCHANGED spectrumVars

\* available > output_len: the older samples are committed without a copy
GetLatestSkip ==
  /\ rpc = "skip"
  /\ LET skip == SkipCount(r_available, output_len)
     IN IF ReadChunkOk(skip)
        THEN /\ head' = Increment(head, skip)
             /\ rSkipped' = rSkipped \cup Range(ChunkSlices(head, skip))
        ELSE UNCHANGED <<head, rSkipped>>
  /\ rpc' = "count"
  /\ UNCHANGED <<buf, tail, wpc, samples, w_available, to_write, output_len,
                 r_available, to_read, output, pushed, delivered, wDropped,
                 log>>
  /\ UNCHANGED spectrumVars

\* the occupied slot count is read again and clamped
GetLatestCount ==
  /\ rpc = "count"
  /\ LET n == ToRead(ConsumerSlots, output_len)
     IN IF n = 0
        THEN /\ rpc' = "idle"
             /\ to_read' = 0
             /\ output_len' = 0
             /\ r_available' = 0
             /\ output' = <<>>
             /\ log' = LogReturn(log, "get", <<>>)
        ELSE /\ rpc' = "read"
             /\ to_read' = n
             /\ UNCHANGED <<output_len, r_available, output, log>>
  /\ UNCHANGED <<buf, head, tail, wpc, samples, w_available, to_write, pushed,
                 delivered, wDropped, rSkipped>>
  /\ UNCHANGED spectrumVars

\* the chunk's two slices are copied into the output and committed
GetLatestRead ==
  /\ rpc = "read"
  /\ LET out == IF ReadChunkOk(to_read) THEN ChunkSlices(head, to_read)
                ELSE <<>>
     IN /\ output' = out
        /\ head' = Increment(head, Len(out))
        /\ delivered' = delivered \o out
        /\ log' = LogReturn(log, "get", out)
  /\ rpc' = "idle"
  /\ to_read' = 0
  /\ output_len' = 0
  /\ r_available' = 0
  /\ UNCHANGED <<buf, tail, wpc, samples, w_available, to_write, pushed,
                 wDropped, rSkipped>>
  /\ UNCHANGED spectrumVars

\* ------------------------------------------------------------ TapNext
TapNext ==
  \/ \E len \in 0..MaxBatch : PushCall(len)
  \/ PushWrite
  \/ \E amount \in 0..MaxAmount : GetLatestCall(amount)
  \/ GetLatestSkip
  \/ GetLatestCount
  \/ GetLatestRead

\* types of the tap's state
TapTypeOK ==
  /\ head \in 0..(2 * Capacity - 1)
  /\ tail \in 0..(2 * Capacity - 1)
  /\ wpc \in {"idle", "write"}
  /\ rpc \in {"idle", "skip", "count", "read"}
  /\ Len(log) <= 2

\* ------------------------------------------------------ SpectrumState
\* f32 values are held in fixed point: a bin, a peak or a magnitude x is the
\* integer x * Scale, and a product or quotient is rounded toward zero.
\* Frequencies are whole Hz.
MinHz == 20                 \* 20.0_f32, the low end of the analysed range
MaxHz == 20000              \* 20000.0, its high end
GrowthPct == 105            \* freq * 1.05
ReleasePct == 99            \* band_peaks[i] * 0.99
DecayPct == 85              \* decay_factor: 0.85
PeakFloorPerMille == 1      \* 1e-3
WidgetDecayPct == 92        \* *bin *= 0.92, in the widget
PeakFloor == (PeakFloorPerMille * Scale) \div 1000

\* the state as one value
State ==
  [bins |-> bins, decay_factor |-> decay_factor, bands |-> bands,
   band_peaks |-> band_peaks, sample_rate |-> sample_rate]

\* SpectrumState::default()
Default ==
  [bins |-> <<>>, decay_factor |-> (DecayPct * Scale) \div 100, bands |-> <<>>,
   band_peaks |-> <<>>, sample_rate |-> 0]

\* TAP_BUFFER_CAPACITY / channels as usize
FftSize(channels) == TAP_BUFFER_CAPACITY \div channels

\* the while loop of the rebuild: the bands from freq up to 20000 Hz
RECURSIVE BuildBands_NoClamp(_, _)
BuildBands_NoClamp(freq, freq_resolution) ==
  IF freq < MaxHz
  THEN LET next == Max((freq * GrowthPct) \div 100, freq + freq_resolution)
       IN <<[lo |-> freq, hi |-> next]>>
            \o BuildBands_NoClamp(next, freq_resolution)
  ELSE <<>>
RECURSIVE BuildBands(_, _)
BuildBands(freq, freq_resolution) ==
  IF freq < MaxHz
  THEN LET next == Max((freq * GrowthPct) \div 100, freq + freq_resolution)
       IN <<[lo |-> freq, hi |-> Min(next, MaxHz)]>>
            \o BuildBands(next, freq_resolution)
  ELSE <<>>

\* Vec::resize(n, value): truncated, or extended with value; the elements
\* that stay keep what they hold
Resize(v, n, value) ==
  [i \in 1..n |-> IF i <= Len(v) THEN v[i] ELSE value]

\* the band table rebuilt for a new sample rate
Rebuild_OneBinMore(st, rate, fft_size) ==
  LET table == BuildBands(MinHz, rate \div fft_size)
      n == Len(table)
  IN [st EXCEPT !.sample_rate = rate,
                !.bands = table,
                !.band_peaks = Resize(st.band_peaks, n, PeakFloor),
                !.bins = Resize(st.bins, n + 1, 0)]
Rebuild(st, rate, fft_size) ==
  LET table == BuildBands(MinHz, rate \div fft_size)
      n == Len(table)
  IN [st EXCEPT !.sample_rate = rate,
                !.bands = table,
                !.band_peaks = Resize(st.band_peaks, n, PeakFloor),
                !.bins = Resize(st.bins, n, 0)]

\* *bin *= self.decay_factor, for every bin
Decay(st) ==
  [st EXCEPT !.bins = [i \in 1..Len(st.bins) |->
                         (st.bins[i] * st.decay_factor) \div Scale]]

\* samples.chunks_exact(channels): the number of mono frames
MonoLen(len, channels) == len \div channels

IsPowerOfTwo(n) == \E k \in 0..n : 2 ^ k = n

\* samples_fft_to_spectrum(..): Ok for two or more finite samples, a power of
\* two of them, with 20000 Hz at or below half the sample rate
TransformOk(n, rate, finite) ==
  /\ n >= 2
  /\ finite
  /\ IsPowerOfTwo(n)
  /\ 2 * MaxHz <= rate

\* spectrum.data(): the components k * rate / n in 20 Hz .. 20000 Hz, lowest
\* first, each with its magnitude
SpectrumData(rate, n, mags) ==
  LET f(k) == (k * rate) \div n
      ks == {k \in 0..(n \div 2) : f(k) >= MinHz /\ f(k) <= MaxHz}
      RECURSIVE list(_)
      list(k) ==
        IF k > n \div 2 THEN <<>>
        ELSE (IF k \in ks
              THEN <<[f |-> f(k),
                      m |-> IF k \in DOMAIN mags THEN mags[k] ELSE 0]>>
              ELSE <<>>) \o list(k + 1)
  IN list(0)

\* the while-let over the peekable iterator for one band: components below lo
\* are passed over, those below hi are summed, the first one at or above hi
\* stops the scan and stays for the next band
RECURSIVE BandScan(_, _, _, _, _, _)
BandScan(data, at, lo, hi, sum, count) ==
  IF at > Len(data) THEN [sum |-> sum, count |-> count, at |-> at]
  ELSE IF data[at].f < lo THEN BandScan(data, at + 1, lo, hi, sum, count)
  ELSE IF data[at].f < hi
       THEN BandScan(data, at + 1, lo, hi, sum + data[at].m, count + 1)
  ELSE [sum |-> sum, count |-> count, at |-> at]

\* mag / (fft_size as f32 / 2.0)
Normalized(mag, fft_size) == (2 * mag) \div fft_size

\* per-band auto-gain: instant attack, slow release
NextPeak(peak, normalized) ==
  IF normalized > peak THEN normalized
  ELSE Max((peak * ReleasePct) \div 100, PeakFloor)

\* (normalized / self.band_peaks[i]).clamp(0.0, 1.0)
Relative_NoClamp(normalized, peak) == (normalized * Scale) \div peak
Relative(normalized, peak) ==
  Max(0, Min(Scale, (normalized * Scale) \div peak))

\* the bin rises to a larger value at once and falls by the decay factor
NextBin_Holds(bin, relative, decay) ==
  IF relative > bin THEN relative ELSE bin
NextBin(bin, relative, decay) ==
  IF relative > bin THEN relative ELSE (bin * decay) \div Scale

\* the for loop over the bands, from band i on, the iterator standing at `at`
RECURSIVE Analyse_StalePeak(_, _, _, _, _)
Analyse_StalePeak(st, data, fft_size, i, at) ==
  IF i > Len(st.bands) THEN st
  ELSE LET scan == BandScan(data, at, st.bands[i].lo, st.bands[i].hi, 0, 0)
           mag == IF scan.count > 0 THEN scan.sum \div scan.count ELSE 0
           normalized == Normalized(mag, fft_size)
           peak == NextPeak(st.band_peaks[i], normalized)
           relative == Relative(normalized, st.band_peaks[i])
           bin == NextBin(st.bins[i], relative, st.decay_factor)
       IN Analyse_StalePeak([st EXCEPT !.band_peaks[i] = peak, !.bins[i] = bin],
                            data, fft_size, i + 1, scan.at)
RECURSIVE Analyse(_, _, _, _, _)
Analyse(st, data, fft_size, i, at) ==
  IF i > Len(st.bands) THEN st
  ELSE LET scan == BandScan(data, at, st.bands[i].lo, st.bands[i].hi, 0, 0)
           mag == IF scan.count > 0 THEN scan.sum \div scan.count ELSE 0
           normalized == Normalized(mag, fft_size)
           peak == NextPeak(st.band_peaks[i], normalized)
           relative == Relative(normalized, peak)
           bin == NextBin(st.bins[i], relative, st.decay_factor)
       IN Analyse([st EXCEPT !.band_peaks[i] = peak, !.bins[i] = bin],
                  data, fft_size, i + 1, scan.at)

\* the state update leaves after the rebuild, if the sample rate asks for one
AfterRebuild_Always(st, channels, rate) ==
  Rebuild(st, rate, FftSize(channels))
AfterRebuild(st, channels, rate) ==
  IF st.sample_rate /= rate THEN Rebuild(st, rate, FftSize(channels)) ELSE st

\* mono.len() < fft_size: the bins decay and nothing is analysed
OnUnderrun_Reset(st) == [st EXCEPT !.bins = [i \in 1..Len(st.bins) |-> 0]]
OnUnderrun(st) == Decay(st)

\* Err(_) from the transform: the bins decay as well
OnTransformError_Skip(st) == st
OnTransformError(st) == Decay(st)

\* the guard at the top of update: nothing to analyse
Ignores_ChannelsOnly(channels, rate) == channels = 0
Ignores(channels, rate) == channels = 0 \/ rate = 0

\* how an update call ends
Outcome(len, finite, channels, rate) ==
  IF Ignores(channels, rate) THEN "ignored"
  ELSE IF MonoLen(len, channels) < FftSize(channels) THEN "underrun"
  ELSE IF ~TransformOk(FftSize(channels), rate, finite) THEN "failed"
  ELSE "analysed"

\* SpectrumState::update: the state it leaves
SpectrumUpdate(st, len, finite, mags, channels, rate) ==
  IF Ignores(channels, rate) THEN st
  ELSE LET fft_size == FftSize(channels)
           st1 == AfterRebuild(st, channels, rate)
       IN IF MonoLen(len, channels) < fft_size THEN OnUnderrun(st1)
          ELSE IF ~TransformOk(fft_size, st1.sample_rate, finite)
               THEN OnTransformError(st1)
          ELSE Analyse(st1, SpectrumData(st1.sample_rate, fft_size, mags),
                       fft_size, 1, 1)

\* the inputs of update
Channels == 0..MaxChannels
SampleRates == {0, 7350, 22050, 44100, 96000}
SampleLens == {TAP_BUFFER_CAPACITY - 1, TAP_BUFFER_CAPACITY}
Silence == [k \in 1..(TAP_BUFFER_CAPACITY \div 2) |-> 0]
\* magnitude vectors: silence, and one component at a soft, a loud or an
\* extreme level
Signals ==
  {Silence} \cup
  {[Silence EXCEPT ![k] = a] :
     k \in 1..(TAP_BUFFER_CAPACITY \div 2),
     a \in {Scale \div 4, 2 * Scale, 1000 * Scale}}

\* history: the components that fall in [lo, hi)
InBand(data, lo, hi) ==
  {k \in 1..Len(data) : data[k].f >= lo /\ data[k].f < hi}

RECURSIVE SumOf(_, _)
SumOf(data, ks) ==
  IF ks = {} THEN 0
  ELSE LET k == CHOOSE x \in ks : TRUE
       IN data[k].m + SumOf(data, ks \ {k})

\* history: what a band receives from a spectrum, the mean of its components
\* over half the window length, 0 for a band without components
BandLevel(data, lo, hi, fft_size) ==
  LET ks == InBand(data, lo, hi)
  IN IF ks = {} THEN 0
     ELSE (2 * (SumOf(data, ks) \div Cardinality(ks))) \div fft_size

\* history: what each band of the table receives from the magnitudes
Levels(st, fft_size, mags) ==
  [i \in 1..Len(st.bands) |->
     BandLevel(SpectrumData(st.sample_rate, fft_size, mags),
               st.bands[i].lo, st.bands[i].hi, fft_size)]

SpectrumInit ==
  /\ bins = Default.bins
  /\ decay_factor = Default.decay_factor
  /\ bands = Default.bands
  /\ band_peaks = Default.band_peaks
  /\ sample_rate = Default.sample_rate
  /\ call = [channels |-> 0, sample_rate |-> 0, len |-> 0, outcome |-> "none",
             levels |-> <<>>]
  /\ rebuilt = <<>>
  /\ updates = 0
  /\ held = <<>>
  /\ due = FALSE
  /\ tick = [empty |-> TRUE, inactive |-> FALSE]
  /\ renders = 0

\* one call of update, with what it was given and the state right after the
\* rebuild (when there was one) kept as history
UpdateCall(len, finite, mags, channels, rate) ==
  /\ updates < MaxUpdates
  /\ LET st == SpectrumUpdate(State, len, finite, mags, channels, rate)
         did == ~Ignores(channels, rate) /\ sample_rate /= rate
     IN /\ bins' = st.bins
        /\ decay_factor' = st.decay_factor
        /\ bands' = st.bands
        /\ band_peaks' = st.band_peaks
        /\ sample_rate' = st.sample_rate
        /\ rebuilt' = IF did THEN <<AfterRebuild(State, channels, rate)>>
                      ELSE <<>>
  /\ call' = [channels |-> channels, sample_rate |-> rate, len |-> len,
              outcome |-> Outcome(len, finite, channels, rate),
              levels |-> IF Outcome(len, finite, channels, rate) = "analysed"
                         THEN Levels(AfterRebuild(State, channels, rate),
                                     FftSize(channels), mags)
                         ELSE <<>>]
  /\ updates' = updates + 1
  /\ UNCHANGED tapVars

\* update called while the input is free to change from call to call
Update(len, finite, mags, channels, rate) ==
  /\ held = <<>>
  /\ ~due
  /\ UpdateCall(len, finite, mags, channels, rate)
  /\ UNCHANGED <<held, due, tick, renders>>

\* the render loop comes round to the next frame of a signal that is being
\* analysed
Frame ==
  /\ ~due
  /\ call.outcome = "analysed"
  /\ due' = TRUE
  /\ UNCHANGED <<tapVars, bins, decay_factor, bands, band_peaks, sample_rate,
                 call, rebuilt, updates, held, tick, renders>>

\* update called for a frame of a signal that no longer changes: a full
\* window with the same magnitudes every time, at the channel count and
\* sample rate of the call before.  These calls are not counted: there is no
\* last one.
Sustain(mags) ==
  /\ due
  /\ held \in {<<>>, <<mags>>}
  /\ LET st == SpectrumUpdate(State, call.len, TRUE, mags, call.channels,
                              call.sample_rate)
     IN /\ bins' = st.bins
        /\ decay_factor' = st.decay_factor
        /\ bands' = st.bands
        /\ band_peaks' = st.band_peaks
        /\ sample_rate' = st.sample_rate
  /\ held' = <<mags>>
  /\ due' = FALSE
  /\ rebuilt' = <<>>
  /\ call' = [call EXCEPT !.levels = Levels(State, FftSize(call.channels), mags)]
  /\ UNCHANGED <<updates, tapVars, tick, renders>>

\* for bin in state.spectrum.bins.iter_mut() { *bin *= 0.92; }
WidgetDecay_None(b) == b
WidgetDecay(b) == [i \in 1..Len(b) |-> (b[i] * WidgetDecayPct) \div 100]

\* SpectrumAnalyzer::render, up to where it starts to draw: nothing on an
\* empty sample tap; the bins faded while the player is paused or stopped;
\* otherwise one call of update with the samples, the channel count and the
\* sample rate of the stream.  What follows only reads the bins.
Render(empty, inactive, len, finite, mags, channels, rate) ==
  /\ renders < MaxRenders
  /\ held = <<>>
  /\ ~due
  /\ IF empty
       THEN UNCHANGED <<tapVars, bins, decay_factor, bands, band_peaks,
                        sample_rate, call, rebuilt, updates>>
     ELSE IF inactive
       THEN /\ bins' = WidgetDecay(bins)
            /\ UNCHANGED <<tapVars, decay_factor, bands, band_peaks,
                           sample_rate, call, rebuilt, updates>>
     ELSE UpdateCall(len, finite, mags, channels, rate)
  /\ tick' = [empty |-> empty, inactive |-> inactive]
  /\ renders' = renders + 1
  /\ UNCHANGED <<held, due>>

RenderNext ==
  \E empty \in BOOLEAN, inactive \in BOOLEAN, len \in SampleLens,
     finite \in BOOLEAN, mags \in Signals, channels \in Channels,
     rate \in SampleRates :
    Render(empty, inactive, len, finite, mags, channels, rate)

SpectrumNext ==
  \E len \in SampleLens, finite \in BOOLEAN, mags \in Signals,
     channels \in Channels, rate \in SampleRates :
    Update(len, finite, mags, channels, rate)

\* --------------------------------------------------- the specifications
Init == TapInit /\ SpectrumInit

TapSpec == Init /\ [][TapNext]_vars

SpectrumSpec == Init /\ [][SpectrumNext]_vars

\* a few free calls, then a sustained signal; the render loop draws frame
\* after frame for as long as the player runs, so the next frame always
\* comes due
SteadyNext ==
  \/ updates < MaxWarmup /\ SpectrumNext
  \/ Frame
  \/ \E mags \in Signals : Sustain(mags)

SteadySpec ==
  /\ Init
  /\ [][SteadyNext]_vars
  /\ WF_vars(Frame)

\* the spectrum widget rendered frame after frame
RenderSpec == Init /\ [][RenderNext]_vars

\* types of the spectrum state
SpectrumTypeOK ==
  /\ sample_rate \in SampleRates
  /\ updates \in 0..MaxUpdates
  /\ \A i \in 1..Len(bins) : bins[i] \in 0..Scale

\* --------------------------------------------- properties of the tap
LastN(s, n) == SubSeq(s, Len(s) - n + 1, Len(s))
IsPrefix(s, t) == Len(s) <= Len(t) /\ SubSeq(t, 1, Len(s)) = s
Increasing(s) == \A i \in 1..Len(s) : \A j \in 1..Len(s) : i < j => s[i] < s[j]
MaxOf(S) == CHOOSE x \in S : \A y \in S : y <= x
\* the calls of the log that have returned
Returned(op) == {i \in 1..Len(log) : log[i].op = op /\ log[i].done}
\* the samples the channel has accepted so far
Accepted == (1..pushed) \ (wDropped \cup Range(samples))
\* what is left of a backlog once the samples older than the amount are skipped
Freshest(backlog, amount) ==
  LastN(backlog, Min(Len(backlog), Min(amount, Capacity)))

\* C1 (as stated): a non-empty result of get_latest ends with the last sample
\* handed to the most recent push call, also when no push overlaps the call.
C1_LatestPushed ==
  \A i \in Returned("get") :
    (i = Len(log) /\ ~log[i].overlapped /\ log[i].result /= <<>>)
      => Last(log[i].result) = pushed

\* C1 (amended): the newest queued sample is the last sample the channel
\* accepted; a non-empty backlog's freshest min(amount, capacity) samples open
\* the result of get_latest, and are the whole result when no push overlaps the
\* call, so that the result then ends with the last accepted sample.
C1_LatestAccepted ==
  /\ Queue /= <<>> => Last(Queue) = MaxOf(Accepted)
  /\ \A i \in Returned("get") :
       /\ IsPrefix(Freshest(log[i].before, log[i].amount), log[i].result)
       /\ ~log[i].overlapped
            => log[i].result = Freshest(log[i].before, log[i].amount)

\* a get_latest no push overlapped caught up over a backlog longer than the
\* amount, after a push the full channel had dropped
C1_Witness ==
  \E i \in Returned("get") :
    /\ i = Len(log)
    /\ ~log[i].overlapped
    /\ Len(log[i].before) > log[i].amount
    /\ log[i].result /= <<>>
    /\ log[i].result = Freshest(log[i].before, log[i].amount)
    /\ Last(log[i].result) < pushed

\* C2: the step that completes a push which saw fewer free slots than the batch
\* is long (and at least one) appends exactly the last `free` samples of the
\* batch, in order, behind the untouched backlog; the queued count never exceeds
\* the capacity.
C2_NewestOfBatch ==
  /\ [](ConsumerSlots <= Capacity)
  /\ [][(/\ wpc = "write"
         /\ wpc' = "idle"
         /\ 0 < w_available
         /\ w_available < Len(samples))
          => (/\ Queue' = Queue \o LastN(samples, w_available)
              /\ head' = head)]_vars

\* a push found one free slot for a longer batch and queued the batch's last
\* sample behind the backlog
C2_Witness ==
  \E i \in Returned("push") :
    /\ i = Len(log)
    /\ rpc = "idle"
    /\ Len(log[i].before) < Capacity
    /\ Capacity - Len(log[i].before) < Len(log[i].batch)
    /\ log[i].before /= <<>>
    /\ log[i].result =
         LastN(log[i].batch, Capacity - Len(log[i].before))
    /\ ~log[i].overlapped
    /\ Queue = log[i].before \o log[i].result

\* C3: a batch no longer than the capacity pushed into an empty channel and
\* then, with nothing in between, read by get_latest(amount) with amount at
\* least the batch length, comes back exactly, in its order.
C3_RoundTrip ==
  (/\ Len(log) = 2
   /\ log[1].op = "push" /\ log[1].done /\ ~log[1].overlapped
   /\ log[1].before = <<>>
   /\ Len(log[1].batch) <= Capacity
   /\ log[2].op = "get" /\ log[2].done /\ ~log[2].overlapped
   /\ log[2].amount >= Len(log[1].batch))
    => log[2].result = log[1].batch

\* a batch of two or more that wrapped around the end of the storage came back
C3_Witness ==
  /\ Len(log) = 2
  /\ log[1].op = "push" /\ log[1].done /\ ~log[1].overlapped
  /\ log[1].before = <<>>
  /\ Len(log[1].batch) >= 2
  /\ Len(log[1].batch) <= Capacity
  /\ log[2].op = "get" /\ log[2].done /\ ~log[2].overlapped
  /\ log[2].amount >= Len(log[1].batch)
  /\ log[2].result = log[1].batch
  /\ Collapse(head) \in 1..(Len(log[1].batch) - 1)

\* C4: the samples delivered so far, followed by the queued ones, are in the
\* order they were pushed and none occurs twice; every sample handed to push is
\* exactly one of delivered, queued, still in the writer's hands, dropped by the
\* writer for lack of room, or skipped by the reader's catch-up.
C4_OrderPreserved ==
  /\ Increasing(delivered \o Queue)
  /\ Range(delivered) \cup Range(Queue) \cup Range(samples) \cup wDropped
       \cup rSkipped = 1..pushed
  /\ Cardinality(Range(delivered)) + Cardinality(Range(Queue))
       + Cardinality(Range(samples)) + Cardinality(wDropped)
       + Cardinality(rSkipped) = pushed

\* samples were delivered by more than one get_latest, around a writer drop and
\* a reader skip
C4_Witness ==
  /\ Len(delivered) >= 3
  /\ wDropped /= {}
  /\ rSkipped /= {}
  /\ output /= <<>>
  /\ output /= delivered
  /\ wpc = "idle"
  /\ rpc = "idle"

\* C5: a push that finds no free slot returns at once and leaves the slots and
\* both cursors as they were.
C5_FullDrop ==
  [][\A len \in 0..MaxBatch :
       (PushCall(len) /\ Distance(head, tail) = Capacity)
         => (/\ buf' = buf
             /\ head' = head
             /\ tail' = tail
             /\ wpc' = "idle"
             /\ Queue' = Queue)]_vars

\* the full channel dropped a whole batch
C5_Witness ==
  \E i \in Returned("push") :
    /\ i = Len(log)
    /\ Len(log[i].before) = Capacity
    /\ log[i].batch /= <<>>
    /\ log[i].result = <<>>
    /\ Range(log[i].batch) \subseteq wDropped
    /\ Queue = log[i].before

\* C6: a result of get_latest is never longer than min(amount, capacity); when
\* fewer samples are queued than asked for, the result begins with exactly the
\* queued samples and, when no push overlaps the call, is exactly them.
C6_ShortRead ==
  \A i \in Returned("get") :
    /\ Len(log[i].result) <= Min(log[i].amount, Capacity)
    /\ Len(log[i].before) < log[i].amount
         => /\ IsPrefix(log[i].before, log[i].result)
            /\ ~log[i].overlapped => log[i].result = log[i].before

\* get_latest asked for more than was queued and returned the shorter sequence
C6_Witness ==
  \E i \in Returned("get") :
    /\ ~log[i].overlapped
    /\ log[i].before /= <<>>
    /\ Len(log[i].before) < log[i].amount
    /\ log[i].result = log[i].before
    /\ output = log[i].result

\* C7: in every reachable state each side can take its next step whatever the
\* other side is doing, and a call's steps only move forward to its return.
StepRank(pc) ==
  CASE pc = "idle" -> 0
    [] pc = "write" -> 1
    [] pc = "skip" -> 1
    [] pc = "count" -> 2
    [] pc = "read" -> 3

\* the step each side's position calls for can be taken
StepEnabled ==
  /\ wpc = "idle" =>
       \A len \in 0..MaxBatch :
         pushed + len <= MaxSamples => ENABLED PushCall(len)
  /\ wpc = "write" => ENABLED PushWrite
  /\ rpc = "idle" => \A amount \in 0..MaxAmount : ENABLED GetLatestCall(amount)
  /\ rpc = "skip" => ENABLED GetLatestSkip
  /\ rpc = "count" => ENABLED GetLatestCount
  /\ rpc = "read" => ENABLED GetLatestRead

C7_NeverWaits ==
  /\ []StepEnabled
  /\ [][/\ wpc' /= wpc => (wpc' = "idle" \/ StepRank(wpc') > StepRank(wpc))
        /\ rpc' /= rpc => (rpc' = "idle" \/ StepRank(rpc') > StepRank(rpc))
       ]_vars

\* both sides are in the middle of a call, the reader about to skip a backlog
C7_Witness ==
  /\ wpc = "write"
  /\ rpc = "skip"
  /\ to_write < Len(samples)

\* --------------------------------- properties of the spectrum engine
\* a step that is one call of update
UpdateStep == updates' = updates + 1
\* the bins, each multiplied by the decay factor
Decayed(b, decay) == [i \in 1..Len(b) |-> (b[i] * decay) \div Scale]

\* C8 (as stated): at the end of a band-table rebuild every bin is 0 and every
\* band peak is 1e-3, those of the bands that existed before included.
C8_RebuildResets ==
  rebuilt /= <<>> =>
    /\ \A i \in 1..Len(rebuilt[1].bins) : rebuilt[1].bins[i] = 0
    /\ \A i \in 1..Len(rebuilt[1].band_peaks) :
         rebuilt[1].band_peaks[i] = PeakFloor

C10_UnderrunAlways ==
  [][(/\ UpdateStep
      /\ call'.channels /= 0
      /\ MonoLen(call'.len, call'.channels) < FftSize(call'.channels))
       => /\ bins' = Decayed(bins, decay_factor)
          /\ UNCHANGED <<bands, band_peaks, sample_rate, decay_factor>>
    ]_vars

\* C10 (amended): an update given a non-zero channel count, the non-zero
\* sample rate the band table was built for, and fewer mono frames than the
\* window length multiplies every bin by the decay factor and changes nothing
\* else.
C10_UnderrunDecays ==
  [][(/\ UpdateStep
      /\ call'.channels /= 0
      /\ call'.sample_rate /= 0
      /\ call'.sample_rate = sample_rate
      /\ MonoLen(call'.len, call'.channels) < FftSize(call'.channels))
       => /\ bins' = Decayed(bins, decay_factor)
          /\ UNCHANGED <<bands, band_peaks, sample_rate, decay_factor>>
    ]_vars

\* an underrun at the stored sample rate found a bin up and lowered it
C10_Witness ==
  /\ call.outcome = "underrun"
  /\ call.sample_rate = sample_rate
  /\ rebuilt = <<>>
  /\ \E i \in 1..Len(bins) : bins[i] > 0 /\ bins[i] < Scale

\* C11: an update called with a channel count of zero or a sample rate of
\* zero leaves the bins, the band edges, the band peaks, the decay factor and
\* the stored sample rate as they were.
C11_DegenerateIgnored ==
  [][(UpdateStep /\ (call'.channels = 0 \/ call'.sample_rate = 0))
       => UNCHANGED <<bins, bands, band_peaks, decay_factor, sample_rate>>]_vars

\* an update with channels but no sample rate, on a state that has a band
\* table and a raised bin to lose
C11_Witness ==
  /\ call.outcome = "ignored"
  /\ call.channels > 0
  /\ call.sample_rate = 0
  /\ sample_rate /= 0
  /\ \E i \in 1..Len(bins) : bins[i] > 0


\* what band i receives from the sustained signal
HeldLevel(i) == Levels(State, FftSize(call.channels), held[1])[i]

\* within one hundredth of 1.0
NearOne(bin) == 100 * bin >= 99 * Scale

\* C12: under a sustained signal, the bin of every band that receives the
\* same magnitude m > 0 on every update stays at 1.0 (or within a hundredth
\* of it) from some update onward, and the bin of every band that receives
\* magnitude 0 stays at 0 from some update onward.
C12_Converges ==
  <>[]((held /= <<>> /\ ~due) =>
         \A i \in 1..Len(bins) :
           IF HeldLevel(i) > 0 THEN NearOne(bins[i]) ELSE bins[i] = 0)

\* C13: the bins, the band edges and the band peaks have the same length in
\* every reachable state: all empty at the start, all resized together by a
\* rebuild.
C13_SameLength ==
  /\ Len(bins) = Len(bands)
  /\ Len(band_peaks) = Len(bands)

\* a rebuild that cut a longer table with a raised first bin down to one band
C13_Witness ==
  /\ updates >= 2
  /\ rebuilt /= <<>>
  /\ Len(rebuilt[1].bands) = 1
  /\ rebuilt[1].bins[1] > 0
  /\ Len(bins) = 1

\* C14: with the default decay factor every bin lies in [0, 1] in every
\* reachable state, whatever finite magnitudes the updates are given, extreme
\* ones included.
C14_BinsInRange ==
  decay_factor = Default.decay_factor =>
    \A i \in 1..Len(bins) : 0 <= bins[i] /\ bins[i] <= Scale

\* an analysed window of extreme magnitude: the band's peak is far above 1.0
\* and its bin stands at 1.0
C14_Witness ==
  /\ call.outcome = "analysed"
  /\ \E i \in 1..Len(bins) :
       band_peaks[i] >= 100 * Scale /\ bins[i] = Scale

\* a sustained call on silence: every band receives magnitude 0
SilentUpdate == due /\ ~due' /\ held' = <<Silence>>

\* C15: once the input is silent on every full-window update, each such
\* update multiplies every bin by the decay factor, and lowers every band
\* peak only by the factor 0.99 and never below 1e-3; the decay factor is
\* smaller than 0.99, so the peak sinks more slowly than the bin; and the
\* bins end below every positive threshold: after finitely many updates they
\* are 0 after each further one.
C15_SilenceDecays ==
  /\ [][SilentUpdate =>
          \A i \in 1..Len(bins) :
            /\ bins'[i] = (bins[i] * decay_factor) \div Scale
            /\ band_peaks'[i] =
                 Max((band_peaks[i] * ReleasePct) \div 100, PeakFloor)]_vars
  /\ [](100 * decay_factor < ReleasePct * Scale)
  /\ <>[]((held = <<Silence>> /\ ~due) =>
            \A i \in 1..Len(bins) : bins[i] = 0)

\* silence after a loud signal: the bin has come down from 1.0 to less than
\* a half while the band's peak is still above a tenth
C15_Witness ==
  /\ held = <<Silence>>
  /\ ~due
  /\ \E i \in 1..Len(bins) :
       /\ bins[i] > 0
       /\ 2 * bins[i] < Scale
       /\ 10 * band_peaks[i] > Scale

\* the state an update works on once the rebuild, if any, is done
Rebuilt == IF rebuilt' = <<>> THEN State ELSE rebuilt'[1]
\* a step that is a call of update analysing a full window, counted or
\* sustained
AnalysedStep ==
  \/ UpdateStep /\ call'.outcome = "analysed"
  \/ due /\ ~due'

\* C16: in every update that analyses a full window, for every band: a
\* magnitude above the tracked peak becomes the peak, exactly; otherwise the
\* peak becomes max(peak * 0.99, 1e-3); the value the bin is driven with is the
\* magnitude over the peak as just updated, clamped to [0, 1]; and no band
\* peak is below 1e-3 in any reachable state.
C16_PeakRule ==
  /\ [](\A i \in 1..Len(band_peaks) : band_peaks[i] >= PeakFloor)
  /\ [][AnalysedStep =>
          \A i \in 1..Len(bands') :
            LET level == call'.levels[i]
                peak == Rebuilt.band_peaks[i]
                bin == Rebuilt.bins[i]
                driven == Max(0, Min(Scale, (level * Scale) \div band_peaks'[i]))
            IN /\ band_peaks'[i] =
                    IF level > peak THEN level
                    ELSE Max((peak * ReleasePct) \div 100, PeakFloor)
               /\ bins'[i] = IF driven > bin THEN driven
                             ELSE (bin * decay_factor) \div Scale]_vars

\* a window that left one band a magnitude below its peak, with the bin of
\* that band risen to the ratio of the two
C16_Witness ==
  /\ held /= <<>>
  /\ ~due
  /\ \E i \in 1..Len(bins) :
       /\ call.levels[i] > 0
       /\ call.levels[i] < band_peaks[i]
       /\ bins[i] = (call.levels[i] * Scale) \div band_peaks[i]
       /\ bins[i] > 0

\* the upper edge the loop computes for a band that starts at lo
Grown(lo) == (lo * GrowthPct) \div 100
Stepped(lo) == lo + call.sample_rate \div FftSize(call.channels)

\* C17: the band table a rebuild leaves partitions 20 Hz .. 20000 Hz: it
\* starts at 20, ends at 20000, every band has low < high, every high is the
\* next band's low, and every high is max(low * 1.05, low + sample rate /
\* window length) cut off at 20000.  (The table being there, with every band
\* wider than nothing, is the loop having ended.)
C17_BandsPartition ==
  rebuilt /= <<>> =>
    LET table == rebuilt[1].bands
        n == Len(table)
    IN /\ n >= 1
       /\ table[1].lo = MinHz
       /\ table[n].hi = MaxHz
       /\ \A i \in 1..n :
            /\ table[i].lo < table[i].hi
            /\ table[i].hi =
                 Min(Max(Grown(table[i].lo), Stepped(table[i].lo)), MaxHz)
       /\ \A i \in 1..(n - 1) : table[i].hi = table[i + 1].lo

\* a table with bands of both kinds: one widened by the resolution step, one
\* by the factor 1.05, both below the cut-off
C17_Witness ==
  /\ rebuilt /= <<>>
  /\ \E i, j \in 1..Len(rebuilt[1].bands) :
       LET a == rebuilt[1].bands[i]
           b == rebuilt[1].bands[j]
       IN /\ Stepped(a.lo) > Grown(a.lo) /\ a.hi = Stepped(a.lo)
          /\ Grown(b.lo) > Stepped(b.lo) /\ b.hi = Grown(b.lo)

\* a step that is one render of the spectrum widget
RenderStep == renders' = renders + 1

QuietGet ==
  /\ log /= <<>>
  /\ Last(log).op = "get"
  /\ Last(log).done
  /\ ~Last(log).overlapped

\* C19: a get_latest that runs to its end with no push in between leaves the
\* channel empty, whatever the amount (0 and more than the capacity
\* included); no sample is returned twice, and no skipped sample is returned
\* later.
C19_LeavesEmpty ==
  /\ QuietGet => Queue = <<>>
  /\ Cardinality(Range(delivered)) = Len(delivered)
  /\ rSkipped \cap Range(delivered) = {}

\* get_latest(0) on a backlog, after an earlier call returned samples: the
\* backlog was skipped whole
C19_Witness ==
  /\ QuietGet
  /\ Last(log).amount = 0
  /\ Last(log).before /= <<>>
  /\ Range(Last(log).before) \subseteq rSkipped
  /\ delivered /= <<>>

\* C20: no chunk request fails.  The count push asks for is min(batch
\* length, free slots seen) and is still free when the chunk is written, so
\* exactly that many samples are written; the reader's skip count and its
\* to_read are still occupied when their chunks are read, so the skip is
\* made and the Vec returned has exactly to_read samples.
C20_ChunksNeverFail ==
  /\ [](/\ wpc = "write" =>
            /\ to_write = Min(Len(samples), w_available)
            /\ WriteChunkOk(to_write)
        /\ rpc = "skip" => ReadChunkOk(SkipCount(r_available, output_len))
        /\ rpc = "read" => ReadChunkOk(to_read))
  /\ [][/\ (wpc = "write" /\ wpc' = "idle") =>
             Len(Queue') = Len(Queue) + to_write
        /\ (rpc = "skip" /\ rpc' = "count") =>
             Len(Queue') = Len(Queue) - SkipCount(r_available, output_len)
        /\ (rpc = "read" /\ rpc' = "idle") => Len(output') = to_read]_vars

\* both sides between their count and their chunk: the reader about to read
\* fewer than it was asked for, the writer about to write part of its batch
C20_Witness ==
  /\ rpc = "read"
  /\ to_read < output_len
  /\ wpc = "write"
  /\ to_write < Len(samples)

\* ------------------------- further properties of the spectrum engine
\* the call is given a non-zero channel count and a non-zero sample rate
\* that differs from the stored one
RateChanged ==
  /\ call'.channels /= 0
  /\ call'.sample_rate /= 0
  /\ call'.sample_rate /= sample_rate

\* the call differs from the one before, which was not ignored, in its
\* channel count only: the sample rate is the stored one
ChannelsAlone ==
  /\ call.outcome \notin {"none", "ignored"}
  /\ call'.channels \notin {0, call.channels}
  /\ call'.sample_rate = sample_rate

\* the table the loop builds for the call's sample rate and window length
FreshTable ==
  BuildBands(MinHz, call'.sample_rate \div FftSize(call'.channels))

\* what a call does to the table: built anew for a changed rate, with the
\* rate stored and the peaks and bins brought to its length; otherwise the
\* table, the stored rate and the lengths stay
TableRule ==
  /\ (rebuilt' /= <<>>) <=> RateChanged
  /\ IF RateChanged
     THEN /\ bands' = FreshTable
          /\ sample_rate' = call'.sample_rate
          /\ Len(band_peaks') = Len(FreshTable)
          /\ Len(bins') = Len(FreshTable)
     ELSE /\ bands' = bands
          /\ sample_rate' = sample_rate
          /\ Len(band_peaks') = Len(band_peaks)
          /\ Len(bins') = Len(bins)

\* C21 as stated: the table is rebuilt exactly when the call's sample rate
\* and channel count are non-zero and the rate differs from the stored one,
\* and a call that changes the channel count alone leaves the band edges,
\* the band peaks, the number of bins and the stored rate as they were.
C21_PeaksUntouched ==
  [][UpdateStep =>
       /\ TableRule
       /\ ChannelsAlone => band_peaks' = band_peaks]_vars

\* C21: the table is rebuilt exactly when the call's sample rate and channel
\* count are non-zero and the rate differs from the stored one.  A call that
\* changes the channel count alone leaves the band edges, the stored rate and
\* the number of bins and of band peaks as they were, though the window
\* length no longer is the one the table was built for; the values of the
\* band peaks stay only if the call analyses nothing, an analysed window
\* moves them by the peak rule.
C21_RebuildOnRateChange ==
  [][UpdateStep =>
       /\ TableRule
       /\ (ChannelsAlone /\ call'.outcome /= "analysed") =>
            band_peaks' = band_peaks]_vars

\* a window analysed against a table built for another channel count, with
\* a band peak raised above its floor
C21_Witness ==
  /\ call.outcome = "analysed"
  /\ rebuilt = <<>>
  /\ bands /= BuildBands(MinHz, sample_rate \div FftSize(call.channels))
  /\ \E i \in 1..Len(band_peaks) : band_peaks[i] > PeakFloor
====
